---- MODULE Spec2Model ----
(***************************************************************************)
(* Model of the completion-notification pipeline of the Slack ticket bot:  *)
(* run.py::background_jobs (one scheduled tick), CompletedTicketNotifier,  *)
(* MetaProcess and the S3BucketConnector operations they call.             *)
(*                                                                         *)
(* Conventions                                                             *)
(*  - ticket ids are opaque strings in the program; the model writes them  *)
(*    1..NumTickets.  process_db_object applies re.match to every truthy   *)
(*    mapped value, so every such value is a string already and the csv    *)
(*    round trip (write_to_s3 / read_csv) leaves ticket_id and status as   *)
(*    they are; a key missing from a row is written as "".                 *)
(*  - time is counted in ticks: `clock` is the instant of the running      *)
(*    tick, used for file names ({prefix}/{YYYYMMDD_HHMM}.csv), for        *)
(*    last_modified and for notified_at / uploaded_at.                     *)
(*  - an S3 key is [prefix, stamp, ext]: "{prefix}/" is [prefix, 0, 0],    *)
(*    "{prefix}/{stamp}.csv" is ext = 1, "{prefix}/{stamp}.csv.csv" is     *)
(*    ext = 2.                                                             *)
(*  - every call to a collaborator (Notion, S3, Slack) may raise.          *)
(*  - `env` is the deployment: the scheduler's max_instances, whether the  *)
(*    collaborators can fail, and whether deliveries are recorded.  Spec   *)
(*    runs serial ticks; QuietSpec, PruneSpec, PageSpec, SubmitSpec,       *)
(*    RaceSpec and ConfigSpec are the same actions from other initial      *)
(*    states.                                                              *)
(***************************************************************************)
EXTENDS Integers, Sequences, FiniteSets, TLC

\* ---------------------------------------------------------------- bounds
NumTickets == 2
MaxTicks == 2
MaxChanges == 2
Retention == 1
MaxFiles == 2
MaxDbSize == 101

\* ------------------------------------------------------- program constants
PageSize == 100

TicketIds == 1..NumTickets
Procs == {1, 2}
Statuses == {"Open", "Done"}
CompletedLabels == {"Done"}
CreatedAtValues == {"2024-01-05 09:30:00"}
MetaReadPrefix == "data_tickets"
LogPrefix == "notifications"

VARIABLES
    notion_db,   \* the workspace database: ticket id -> page (or NoPage)
    s3,          \* the bucket: a set of objects [key, last_modified, body]
    clock,       \* the instant of the latest tick
    tk,          \* per job instance: position in background_jobs and its locals
    sent,        \* messages delivered by post_message, per ticket
    deliveries,  \* history, kept when env.history: each user message a tick
                 \* delivered, with the snapshots the tick had read
    cfg,         \* s3_config of the YAML configuration
    env,         \* the deployment: the scheduler's max_instances for the job,
                 \* whether the collaborators (Notion, S3, Slack) can fail,
                 \* and whether `deliveries` is kept
    submission,  \* handle_submission: its position, locals and messages posted
    changes,     \* number of status edits made in the workspace database
    logged       \* history: every entry put in a notification log snapshot

vars ==
    <<notion_db, s3, clock, tk, sent, deliveries, cfg, env, submission, changes, logged>>

NoPage == [exists |-> FALSE]

\* ---------------------------------------------------------------- helpers
Max(S) == CHOOSE x \in S : \A y \in S : y <= x

Min2(a, b) == IF a < b THEN a ELSE b

\* the elements of a set of ticket ids (positive integers) in increasing
\* order
SeqOfSet(S) ==
    IF S = {} THEN <<>>
    ELSE SelectSeq([i \in 1..Max(S) |-> i], LAMBDA x : x \in S)

\* the elements of a python list (SelectSeq stands for a list comprehension)
Range(s) == {s[i] : i \in 1..Len(s)}

\* ------------------------------------------------------------------ Notion
\* NotionConnector.get_db_object: one POST of the query, no start_cursor is
\* ever sent; response_length = len(re) counts the keys of the response
\* object, which is never page_size, so the loop body runs once and the
\* result is the first page of the database.
get_db_object(db) ==
    LET ids == SeqOfSet({t \in DOMAIN db : db[t].exists})
    IN SubSeq(ids, 1, Min2(Len(ids), PageSize))

\* NotionConnector.process_db_object on one page: only the keys present in
\* the flattened page survive, so a page whose due date is not set yields a
\* record without the due_date key.
process_page(db, t) ==
    IF db[t].has_due_date
    THEN [ticket_id |-> t, status |-> db[t].status,
          created_at |-> db[t].created_at, due_date |-> "2024-02-01"]
    ELSE [ticket_id |-> t, status |-> db[t].status,
          created_at |-> db[t].created_at]

\* MetaProcess.generate_meta_file
generate_meta_file(db) ==
    LET data == get_db_object(db)
    IN [i \in 1..Len(data) |-> process_page(db, data[i])]

\* ---------------------------------------------------------------------- S3
Key(prefix, stamp, ext) == [prefix |-> prefix, stamp |-> stamp, ext |-> ext]

Placeholder(prefix) ==
    [key |-> Key(prefix, 0, 0), last_modified |-> 0, body |-> <<>>]

\* the file name of a fetch that raised: no name is bound
NoFile == Key("", 0, 0)

\* self._bucket.objects.filter(Prefix=prefix); the configured prefixes are
\* not prefixes of one another
objects_filter(store, prefix) == {o \in store : o.key.prefix = prefix}

\* S3 lists keys in lexicographic order
KeyBefore(a, b) ==
    \/ a.stamp < b.stamp
    \/ a.stamp = b.stamp /\ a.ext <= b.ext

\* S3BucketConnector.get_most_recent_modified_file.  `obj != f"{prefix}/"`
\* compares an ObjectSummary with a str and is always true, so the
\* placeholder is listed too; file_dates[0] raises IndexError when nothing
\* is listed; read_csv of the placeholder yields no rows.
get_most_recent_modified_file(store, prefix, fault) ==
    LET objs == objects_filter(store, prefix)
    IN IF fault \/ objs = {}
       THEN [raised |-> TRUE, records |-> <<>>, file_name |-> NoFile]
       ELSE LET most_recent_date == Max({o.last_modified : o \in objs})
                files == {o \in objs : o.last_modified = most_recent_date}
                first == CHOOSE o \in files :
                            \A q \in files : KeyBefore(o.key, q.key)
            IN [raised |-> FALSE, records |-> first.body,
                file_name |-> first.key]

\* csv.DictWriter(fieldnames = keys of the first record): a row lacking a
\* key gets "", a row with a key outside fieldnames raises ValueError
csv_rows(data) ==
    LET fields == DOMAIN data[1]
    IN [i \in 1..Len(data) |->
           [k \in fields |-> IF k \in DOMAIN data[i] THEN data[i][k] ELSE ""]]

\* S3BucketConnector.write_to_s3 + __put_object: data[0] is read before the
\* emptiness test, so an empty list raises IndexError
write_to_s3(store, data, key, now, fault) ==
    IF data = <<>> THEN [raised |-> "IndexError", store |-> store]
    ELSE IF \E i \in 1..Len(data) : ~(DOMAIN data[i] \subseteq DOMAIN data[1])
    THEN [raised |-> "ValueError", store |-> store]
    ELSE IF fault THEN [raised |-> "ClientError", store |-> store]
    ELSE [raised |-> "none",
          store |-> {o \in store : o.key # key} \cup
                    {[key |-> key, last_modified |-> now,
                      body |-> csv_rows(data)]}]

\* S3BucketConnector.remove_object
remove_object(store, key) == {o \in store : o.key # key}

\* MetaProcess.delete_meta_files: every listed key older than the threshold
\* except "{prefix}/" is passed to remove_object with ".csv" appended
RECURSIVE remove_all(_, _)
remove_all(store, keys) ==
    IF keys = {} THEN store
    ELSE LET k == CHOOSE x \in keys : TRUE
         IN remove_all(remove_object(store, k), keys \ {k})

\* the key delete_meta_files passes to remove_object: f"{file}.csv"
with_csv_suffix(k) == Key(k.prefix, k.stamp, k.ext + 1)

delete_meta_files(store, prefix, date_threshold) ==
    LET to_delete == {o.key : o \in {q \in objects_filter(store, prefix) :
                                       /\ q.last_modified < date_threshold
                                       /\ q.key # Key(prefix, 0, 0)}}
    IN remove_all(store, {with_csv_suffix(k) : k \in to_delete})

\* --------------------------------------------------- CompletedTicketNotifier
\* get_completed_tickets, lines 59-64
completed_tickets_of(current_meta_file) ==
    LET IsCompleted(dct) == dct.status \in CompletedLabels
    IN SelectSeq(current_meta_file, IsCompleted)

\* as filter_records_marked_completed, but every ticket of the previous
\* metafile counts as previously completed, whatever its status
filter_records_any_previous(completed_tickets, last_meta_file) ==
    LET previously_completed_tickets ==
            {last_meta_file[i].ticket_id : i \in 1..Len(last_meta_file)}
        IsRecent(dct) == dct.ticket_id \notin previously_completed_tickets
    IN SelectSeq(completed_tickets, IsRecent)

\* __filter_records_marked_completed_not_notified, lines 93-112
filter_records_marked_completed(completed_tickets, last_meta_file) ==
    LET WasCompleted(dct) == dct.status \in CompletedLabels
        prev == SelectSeq(last_meta_file, WasCompleted)
        previously_completed_tickets == {prev[i].ticket_id : i \in 1..Len(prev)}
        IsRecent(dct) == dct.ticket_id \notin previously_completed_tickets
    IN SelectSeq(completed_tickets, IsRecent)

\* as check_notifications_log, but any logged attempt counts as notified
check_notifications_log_any_entry(ticket_data, notif_log) ==
    LET notified == {notif_log[i].ticket_id : i \in 1..Len(notif_log)}
        NeedsNotification(item) == item.ticket_id \notin notified
    IN SelectSeq(ticket_data, NeedsNotification)

\* __check_notifications_log, lines 136-148
check_notifications_log(ticket_data, notif_log) ==
    LET IsSuccess(ticket) == ticket.notification_status = "success"
        ok == SelectSeq(notif_log, IsSuccess)
        notified == {ok[i].ticket_id : i \in 1..Len(ok)}
        NeedsNotification(item) == item.ticket_id \notin notified
    IN SelectSeq(ticket_data, NeedsNotification)

\* send_notifications, lines 161-170: the fields are read and created_at is
\* parsed before the try block; "" does not parse, a missing key raises
record_fault(rec) ==
    IF rec.created_at = "" THEN "ValueError"
    ELSE IF "due_date" \notin DOMAIN rec THEN "KeyError"
    ELSE "none"

\* as notification_record, but the status is set before the team message
notification_record_after_user(rec, outcome, now) ==
    [notification_status |-> IF outcome # "user_raises" THEN "success" ELSE "failed",
     notified_at |-> now,
     ticket_id |-> rec.ticket_id]

\* send_notifications, lines 189-201: the entry appended for one candidate
notification_record(rec, outcome, now) ==
    [notification_status |-> IF outcome = "both_sent" THEN "success" ELSE "failed",
     notified_at |-> now,
     ticket_id |-> rec.ticket_id]

\* as merged_log, but the previous log is not carried over
merged_log_new_only(data, notif_log) == data

\* log_notifications, lines 214-217
merged_log(data, notif_log) ==
    IF notif_log # <<>> THEN data \o notif_log ELSE data

\* MetaProcess.load_meta_file, line 52
stamp_uploaded_at(meta_file, log_date) ==
    [i \in 1..Len(meta_file) |->
        [k \in DOMAIN meta_file[i] \cup {"uploaded_at"} |->
            IF k = "uploaded_at" THEN log_date ELSE meta_file[i][k]]]

\* ------------------------------------------------------------ job instances
SendOutcomes == {"user_raises", "team_raises", "both_sent"}

\* whether a call to a collaborator raises, in a deployment where the
\* collaborators can fail and in one where they cannot
Faults == IF env.faults THEN BOOLEAN ELSE {FALSE}

Outcomes == IF env.faults THEN SendOutcomes ELSE {"both_sent"}

NothingSent == [t \in TicketIds |-> [user |-> 0, team |-> 0]]

\* a job instance between two ticks; `last` is how its latest tick ended
\* ("none" before the first) and `at` the step that raised
\* `tick` is the instant the tick started at; files0 and sent0 are the
\* notification log files and the messages delivered when it started
Idle(last, at) ==
    [pc |-> "idle", last |-> last, at |-> at, tick |-> 0,
     files0 |-> {}, sent0 |-> NothingSent,
     current_meta_file |-> <<>>, last_metafile_name |-> NoFile,
     recent_tickets |-> <<>>, contacts |-> <<>>,
     has_notif_log |-> FALSE, notif_log |-> <<>>, file_name |-> NoFile,
     log |-> <<>>, outcomes |-> <<>>, metafile |-> <<>>]

\* an exception that leaves background_jobs: the scheduler logs it and the
\* instance is gone; the next tick builds a new CompletedTicketNotifier
Raise(p, exc) == tk' = [tk EXCEPT ![p] = Idle(exc, tk[p].pc)]

Goto(p, pc) == tk' = [tk EXCEPT ![p].pc = pc]

\* ------------------------------------------------------- handle_submission
\* no form is being handled
NoSubmission ==
    [pc |-> "idle", ticket |-> 0, attempts |-> <<>>,
     usr_msg |-> "none", tm_msg |-> "none", posted |-> <<>>]

\* -------------------------------------------------------------------- Init
\* the program starts in deployment e: an empty workspace database, and a
\* bucket in which any of the two configured folders has been created
Start(e) ==
    /\ notion_db = [t \in TicketIds |-> NoPage]
    /\ cfg = [metafile_prefix |-> "data_tickets",
               notifications_log_prefix |-> "notifications"]
    /\ \E made \in SUBSET {cfg.metafile_prefix, cfg.notifications_log_prefix} :
          s3 = {Placeholder(x) : x \in made}
    /\ clock = 0
    /\ tk = [p \in Procs |-> Idle("none", "idle")]
    /\ sent = NothingSent
    /\ env = e
    /\ submission = NoSubmission
    /\ changes = 0
    /\ logged = {}
    /\ deliveries = {}

Init == Start([max_instances |-> 1, faults |-> TRUE, history |-> FALSE])

\* ------------------------------------------------- the workspace database
\* The program observes the workspace database only through the two pulls of
\* a tick (generate_meta_file), so an edit made at any moment is the same
\* edit made right before the next pull: edits are taken there.
AboutToPull == \E p \in Procs : tk[p].pc \in {"pull", "pull2"}

\* a submitted form becomes a page (run.py handle_submission, post_object)
CreateTicket(t) ==
    /\ AboutToPull
    /\ ~notion_db[t].exists
    /\ \A u \in TicketIds : u < t => notion_db[u].exists
    /\ \E c \in CreatedAtValues, d \in BOOLEAN :
          notion_db' = [notion_db EXCEPT ![t] =
              [exists |-> TRUE, status |-> "Open",
               created_at |-> c, has_due_date |-> d]]
    /\ UNCHANGED <<s3, clock, tk, sent, deliveries, cfg, env, submission, changes, logged>>

\* the team edits the status of a ticket in the workspace database
ChangeStatus(t) ==
    /\ AboutToPull
    /\ notion_db[t].exists
    /\ changes < MaxChanges
    /\ \E st \in Statuses \ {notion_db[t].status} :
          notion_db' = [notion_db EXCEPT ![t].status = st]
    /\ changes' = changes + 1
    /\ UNCHANGED <<s3, clock, tk, sent, deliveries, cfg, env, submission, logged>>

\* ------------------------------------------------ run.py background_jobs
\* the scheduler fires the job, in the first free instance, when fewer than
\* max_instances are running (the job of Config.JOBS sets no max_instances,
\* so the scheduler's default of 1 applies); line 107 builds a new
\* CompletedTicketNotifier
Running == {q \in Procs : tk[q].pc # "idle"}

StartTick(p) ==
    /\ Cardinality(Running) < env.max_instances
    /\ tk[p].pc = "idle"
    /\ \A q \in Procs : q < p => tk[q].pc # "idle"
    /\ clock < MaxTicks
    /\ clock' = clock + 1
    /\ tk' = [tk EXCEPT ![p] =
                [Idle("none", "idle") EXCEPT
                    !.pc = "pull", !.tick = clock + 1,
                    !.files0 = objects_filter(s3, LogPrefix),
                    !.sent0 = sent]]
    /\ UNCHANGED <<notion_db, s3, sent, deliveries, cfg, env, submission, changes, logged>>

\* get_completed_tickets, line 56: generate_meta_file
PullCurrent(p) ==
    /\ tk[p].pc = "pull"
    /\ \E fault \in Faults :
          IF fault THEN Raise(p, "HTTPError")
          ELSE tk' = [tk EXCEPT ![p].current_meta_file = generate_meta_file(notion_db),
                                ![p].pc = "diff"]
    /\ UNCHANGED <<notion_db, s3, clock, sent, deliveries, cfg, env, submission, changes, logged>>

\* __filter_records_marked_completed_not_notified: when the fetch raises the
\* except branch only logs, and line 95 reads the unbound last_meta_file
FilterMeta(p) ==
    /\ tk[p].pc = "diff"
    /\ \E fault \in Faults :
          LET got == get_most_recent_modified_file(s3, MetaReadPrefix, fault)
          IN IF got.raised THEN Raise(p, "UnboundLocalError")
             ELSE tk' = [tk EXCEPT
                     ![p].last_metafile_name = got.file_name,
                     ![p].recent_tickets =
                         filter_records_marked_completed(
                             completed_tickets_of(tk[p].current_meta_file),
                             got.records),
                     ![p].pc = "checklog"]
    /\ UNCHANGED <<notion_db, s3, clock, sent, deliveries, cfg, env, submission, changes, logged>>

\* as notify_branch, but the log is written whatever the candidates are
notify_branch_always_logs(contacts) ==
    IF contacts # <<>> THEN "send" ELSE "log"

\* notify, lines 226-230: send and log only when there are candidates
notify_branch(contacts) ==
    IF contacts # <<>> THEN "send" ELSE "prune_log"

\* __check_notifications_log, then the test of notify line 226
CheckLog(p) ==
    /\ tk[p].pc = "checklog"
    /\ \E fault \in Faults :
          LET got == get_most_recent_modified_file(s3, LogPrefix, fault)
              contacts == IF got.raised THEN tk[p].recent_tickets
                          ELSE check_notifications_log(tk[p].recent_tickets,
                                                       got.records)
          IN tk' = [tk EXCEPT
                 ![p].has_notif_log = ~got.raised,
                 ![p].notif_log = got.records,
                 ![p].file_name = got.file_name,
                 ![p].contacts = contacts,
                 ![p].pc = notify_branch(contacts)]
    /\ UNCHANGED <<notion_db, s3, clock, sent, deliveries, cfg, env, submission, changes, logged>>

\* send_notifications: one iteration of the loop
SendOne(p) ==
    /\ tk[p].pc = "send"
    /\ LET rec == tk[p].contacts[Len(tk[p].log) + 1]
           t == rec.ticket_id
       IN IF record_fault(rec) # "none"
          THEN Raise(p, record_fault(rec)) /\ UNCHANGED <<sent, deliveries>>
          ELSE \E outcome \in Outcomes :
                 /\ sent' = [sent EXCEPT
                       ![t].user = @ + (IF outcome = "user_raises" THEN 0 ELSE 1),
                       ![t].team = @ + (IF outcome = "both_sent" THEN 1 ELSE 0)]
                 /\ deliveries' = deliveries \cup
                       (IF outcome = "user_raises" \/ ~env.history THEN {}
                        ELSE {[ticket_id |-> t, tick |-> tk[p].tick,
                               meta |-> tk[p].last_metafile_name,
                               log |-> tk[p].file_name]})
                 /\ tk' = [tk EXCEPT
                       ![p].log = Append(@, notification_record(rec, outcome, clock)),
                       ![p].outcomes = Append(@, outcome),
                       ![p].pc = IF Len(tk[p].log) + 1 = Len(tk[p].contacts)
                                 THEN "log" ELSE "send"]
    /\ UNCHANGED <<notion_db, s3, clock, cfg, env, submission, changes, logged>>

\* log_notifications: self.notif_log is set only by a fetch that returned
LogNotifications(p) ==
    /\ tk[p].pc = "log"
    /\ \E fault \in Faults :
          IF ~tk[p].has_notif_log
          THEN Raise(p, "AttributeError") /\ UNCHANGED <<s3, logged>>
          ELSE LET data == merged_log(tk[p].log, tk[p].notif_log)
                   w == write_to_s3(s3, data, Key(LogPrefix, clock, 1), clock, fault)
               IN IF w.raised # "none"
                  THEN Raise(p, w.raised) /\ UNCHANGED <<s3, logged>>
                  ELSE /\ s3' = w.store
                       /\ logged' = logged \cup Range(csv_rows(data))
                       /\ Goto(p, "prune_log")
    /\ UNCHANGED <<notion_db, clock, sent, deliveries, cfg, env, submission, changes>>

\* background_jobs, lines 117-123: delete old notification logs
PruneLog(p) ==
    /\ tk[p].pc = "prune_log"
    /\ \E fault \in Faults :
          IF fault THEN Raise(p, "ClientError") /\ UNCHANGED s3
          ELSE /\ s3' = delete_meta_files(s3, cfg.notifications_log_prefix,
                                          clock - Retention)
               /\ Goto(p, "pull2")
    /\ UNCHANGED <<notion_db, clock, sent, deliveries, cfg, env, submission, changes, logged>>

\* background_jobs, line 125: generate updated metafile
PullMeta(p) ==
    /\ tk[p].pc = "pull2"
    /\ \E fault \in Faults :
          IF fault THEN Raise(p, "HTTPError")
          ELSE tk' = [tk EXCEPT ![p].metafile = generate_meta_file(notion_db),
                                ![p].pc = "load"]
    /\ UNCHANGED <<notion_db, s3, clock, sent, deliveries, cfg, env, submission, changes, logged>>

\* background_jobs, lines 127-129: MetaProcess.load_meta_file
LoadMeta(p) ==
    /\ tk[p].pc = "load"
    /\ \E fault \in Faults :
          LET w == write_to_s3(s3, stamp_uploaded_at(tk[p].metafile, clock),
                               Key(cfg.metafile_prefix, clock, 1), clock, fault)
          IN IF w.raised # "none" THEN Raise(p, w.raised) /\ UNCHANGED s3
             ELSE s3' = w.store /\ Goto(p, "prune_meta")
    /\ UNCHANGED <<notion_db, clock, sent, deliveries, cfg, env, submission, changes, logged>>

\* background_jobs, lines 131-133: delete old metafiles; the job returns
PruneMeta(p) ==
    /\ tk[p].pc = "prune_meta"
    /\ \E fault \in Faults :
          IF fault THEN Raise(p, "ClientError") /\ UNCHANGED s3
          ELSE /\ s3' = delete_meta_files(s3, cfg.metafile_prefix,
                                          clock - Retention)
               /\ tk' = [tk EXCEPT ![p] = Idle("completed", "idle")]
    /\ UNCHANGED <<notion_db, clock, sent, deliveries, cfg, env, submission, changes, logged>>

\* the process is killed in the middle of a tick and restarted
Crash(p) ==
    /\ tk[p].pc # "idle"
    /\ tk' = [tk EXCEPT ![p] = Idle("crash", tk[p].pc)]
    /\ UNCHANGED <<notion_db, s3, clock, sent, deliveries, cfg, env, submission, changes, logged>>

Next ==
    \/ \E t \in TicketIds : CreateTicket(t)
    \/ \E t \in TicketIds : ChangeStatus(t)
    \/ \E p \in Procs : StartTick(p)
    \/ \E p \in Procs : PullCurrent(p)
    \/ \E p \in Procs : FilterMeta(p)
    \/ \E p \in Procs : CheckLog(p)
    \/ \E p \in Procs : SendOne(p)
    \/ \E p \in Procs : LogNotifications(p)
    \/ \E p \in Procs : PruneLog(p)
    \/ \E p \in Procs : PullMeta(p)
    \/ \E p \in Procs : LoadMeta(p)
    \/ \E p \in Procs : PruneMeta(p)
    \/ \E p \in Procs : Crash(p)

Spec == Init /\ [][Next]_vars

\* ----------------------------------------- two runs with no status change
\* The collaborators do not fail, the process is not killed, and every
\* status edit is made before the first pull of the first tick.
QuietInit == Start([max_instances |-> 1, faults |-> FALSE, history |-> FALSE])

EditBeforeRuns(t) ==
    /\ clock = 1
    /\ \E p \in Procs : tk[p].pc = "pull"
    /\ ChangeStatus(t)

QuietNext ==
    \/ \E t \in TicketIds : CreateTicket(t)
    \/ \E t \in TicketIds : EditBeforeRuns(t)
    \/ \E p \in Procs : StartTick(p)
    \/ \E p \in Procs : PullCurrent(p)
    \/ \E p \in Procs : FilterMeta(p)
    \/ \E p \in Procs : CheckLog(p)
    \/ \E p \in Procs : SendOne(p)
    \/ \E p \in Procs : LogNotifications(p)
    \/ \E p \in Procs : PruneLog(p)
    \/ \E p \in Procs : PullMeta(p)
    \/ \E p \in Procs : LoadMeta(p)
    \/ \E p \in Procs : PruneMeta(p)

QuietSpec == QuietInit /\ [][QuietNext]_vars

\* ------------------------------------------------------ overlapping ticks
\* The scheduler runs the job with at most one instance at a time, or lets
\* a tick start while the previous one is still running; the deliveries of
\* the ticks are recorded.
RaceInit ==
    \E n \in {1, 2} :
        Start([max_instances |-> n, faults |-> TRUE, history |-> TRUE])

RaceSpec == RaceInit /\ [][Next]_vars

\* -------------------------------------------------- configured prefixes
\* run.py lines 57-66: metafile_prefix and notifications_log_prefix are read
\* from the s3 section of the YAML configuration
MetafilePrefixes == {"data_tickets", "tickets_meta"}
LogPrefixes == {"notifications", "notify_logs"}

\* as Init, for any configured pair of prefixes; any of the folders the
\* program names (in its configuration or in its code) has been created
ConfigInit ==
    /\ notion_db = [t \in TicketIds |-> NoPage]
    /\ \E m \in MetafilePrefixes, l \in LogPrefixes :
          cfg = [metafile_prefix |-> m, notifications_log_prefix |-> l]
    /\ \E made \in SUBSET {cfg.metafile_prefix, cfg.notifications_log_prefix,
                            MetaReadPrefix, LogPrefix} :
          s3 = {Placeholder(x) : x \in made}
    /\ clock = 0
    /\ tk = [p \in Procs |-> Idle("none", "idle")]
    /\ sent = NothingSent
    /\ env = [max_instances |-> 1, faults |-> TRUE, history |-> FALSE]
    /\ submission = NoSubmission
    /\ changes = 0
    /\ logged = {}
    /\ deliveries = {}

ConfigSpec == ConfigInit /\ [][Next]_vars

\* ---------------------------------------------- run.py handle_submission
\* status codes post_object can return
StatusCodes == {200, 400, 500}

\* post_object: requests.post returns a response, whose status code is
\* returned, or raises; an HTTPError is caught, and the return statement
\* then reads the unbound `response` and raises as well.

\* a user submits the form (view "form_1"); lines 77-84
Submit(t) ==
    /\ submission.pc \in {"idle", "done", "raised"}
    /\ ~notion_db[t].exists
    /\ \A u \in TicketIds : u < t => notion_db[u].exists
    /\ submission' = [NoSubmission EXCEPT !.pc = "post", !.ticket = t]
    /\ UNCHANGED <<notion_db, s3, clock, tk, sent, deliveries, cfg, env,
                   changes, logged>>

\* the page post_object creates when the workspace answers 200
created_page(db, t, status_code) ==
    IF status_code = 200 /\ ~db[t].exists
    THEN [db EXCEPT ![t] = [exists |-> TRUE, status |-> "Open",
                            created_at |-> "2024-01-05 09:30:00",
                            has_due_date |-> TRUE]]
    ELSE db

\* line 86: status_code = notion_conn.post_object(ticket), then the test of
\* line 88 and the messages of lines 98-99
PostFirst ==
    /\ submission.pc = "post"
    /\ \E fault \in Faults, status_code \in StatusCodes :
          IF fault
          THEN /\ submission' = [submission EXCEPT !.pc = "raised"]
               /\ UNCHANGED notion_db
          ELSE /\ notion_db' = created_page(notion_db, submission.ticket,
                                            status_code)
               /\ submission' =
                     [submission EXCEPT
                        !.attempts = Append(@, status_code),
                        !.usr_msg = IF status_code # 200 THEN @ ELSE "success",
                        !.tm_msg = IF status_code # 200 THEN @ ELSE "success",
                        !.pc = IF status_code # 200 THEN "sleep" ELSE "msg_user"]
    /\ UNCHANGED <<s3, clock, tk, sent, deliveries, cfg, env, changes, logged>>

\* line 89: time.sleep(3)
Sleep ==
    /\ submission.pc = "sleep"
    /\ submission' = [submission EXCEPT !.pc = "retry"]
    /\ UNCHANGED <<notion_db, s3, clock, tk, sent, deliveries, cfg, env,
                   changes, logged>>

\* lines 90-96: new_status_code = notion_conn.post_object(ticket)
PostRetry ==
    /\ submission.pc = "retry"
    /\ \E fault \in Faults, new_status_code \in StatusCodes :
          IF fault
          THEN /\ submission' = [submission EXCEPT !.pc = "raised"]
               /\ UNCHANGED notion_db
          ELSE /\ notion_db' = created_page(notion_db, submission.ticket,
                                            new_status_code)
               /\ submission' =
                     [submission EXCEPT
                        !.attempts = Append(@, new_status_code),
                        !.usr_msg = IF new_status_code = 200
                                    THEN "success" ELSE "fail",
                        !.tm_msg = IF new_status_code = 200
                                   THEN "success" ELSE "fail",
                        !.pc = "msg_user"]
    /\ UNCHANGED <<s3, clock, tk, sent, deliveries, cfg, env, changes, logged>>

\* line 101: slack_conn.post_message(slack_id=user_id, msg=usr_msg);
\* post_message has no handler, so a Slack error leaves handle_submission
PostUser ==
    /\ submission.pc = "msg_user"
    /\ \E fault \in Faults :
          submission' =
              IF fault THEN [submission EXCEPT !.pc = "raised"]
              ELSE [submission EXCEPT
                      !.posted = Append(@, [to |-> "user",
                                            msg |-> submission.usr_msg]),
                      !.pc = "msg_team"]
    /\ UNCHANGED <<notion_db, s3, clock, tk, sent, deliveries, cfg, env,
                   changes, logged>>

\* line 102: slack_conn.post_message(slack_id=team_id, msg=tm_msg)
PostTeam ==
    /\ submission.pc = "msg_team"
    /\ \E fault \in Faults :
          submission' =
              IF fault THEN [submission EXCEPT !.pc = "raised"]
              ELSE [submission EXCEPT
                      !.posted = Append(@, [to |-> "team",
                                            msg |-> submission.tm_msg]),
                      !.pc = "done"]
    /\ UNCHANGED <<notion_db, s3, clock, tk, sent, deliveries, cfg, env,
                   changes, logged>>

SubmitNext ==
    \/ \E t \in TicketIds : Submit(t)
    \/ PostFirst
    \/ Sleep
    \/ PostRetry
    \/ PostUser
    \/ PostTeam

SubmitSpec == Init /\ [][SubmitNext]_vars

\* ------------------------------------------------------ retention pruning
\* delete_meta_files applied to the stores a run of ticks can leave: under
\* each configured prefix the folder object or not, and any of the files
\* written at the instants 1..MaxFiles; the tick is at one of its two
\* pruning steps, at any instant up to the one that makes every file old.
FilesUnder(prefix) ==
    {Placeholder(prefix)} \cup
    {[key |-> Key(prefix, i, 1), last_modified |-> i, body |-> <<>>] :
        i \in 1..MaxFiles}

PruneInit ==
    /\ notion_db = [t \in TicketIds |-> NoPage]
    /\ cfg = [metafile_prefix |-> "data_tickets",
               notifications_log_prefix |-> "notifications"]
    /\ \E meta \in SUBSET FilesUnder(cfg.metafile_prefix),
          logs \in SUBSET FilesUnder(cfg.notifications_log_prefix) :
          s3 = meta \cup logs
    /\ clock \in 1..(MaxFiles + Retention + 1)
    /\ \E step \in {"prune_log", "prune_meta"} :
          tk = [p \in Procs |->
                  IF p = 1
                  THEN [Idle("none", "idle") EXCEPT !.pc = step, !.tick = clock]
                  ELSE Idle("none", "idle")]
    /\ sent = NothingSent
    /\ env = [max_instances |-> 1, faults |-> TRUE, history |-> FALSE]
    /\ submission = NoSubmission
    /\ changes = 0
    /\ logged = {}
    /\ deliveries = {}

PruneNext ==
    \/ \E p \in Procs : PruneLog(p)
    \/ \E p \in Procs : PruneMeta(p)

PruneSpec == PruneInit /\ [][PruneNext]_vars

\* ------------------------------------------------- pull of a large database
\* generate_meta_file applied to workspace databases of 0..MaxDbSize
\* tickets: a tick is about to make its first pull.
PageInit ==
    /\ \E n \in 0..MaxDbSize :
          notion_db = [t \in 1..n |->
                          [exists |-> TRUE, status |-> "Open",
                           created_at |-> "2024-01-05 09:30:00",
                           has_due_date |-> TRUE]]
    /\ cfg = [metafile_prefix |-> "data_tickets",
               notifications_log_prefix |-> "notifications"]
    /\ s3 = {Placeholder(cfg.metafile_prefix),
              Placeholder(cfg.notifications_log_prefix)}
    /\ clock = 1
    /\ tk = [p \in Procs |->
                IF p = 1
                THEN [Idle("none", "idle") EXCEPT
                        !.pc = "pull", !.tick = 1,
                        !.files0 = objects_filter(s3, LogPrefix)]
                ELSE Idle("none", "idle")]
    /\ sent = NothingSent
    /\ env = [max_instances |-> 1, faults |-> TRUE, history |-> FALSE]
    /\ submission = NoSubmission
    /\ changes = 0
    /\ logged = {}
    /\ deliveries = {}

PageNext == \E p \in Procs : PullCurrent(p)

PageSpec == PageInit /\ [][PageNext]_vars

\* ================================================================ properties
\* the previous metafile and the newest notification log as a fetch that
\* does not raise reads them
last_meta_file == get_most_recent_modified_file(s3, MetaReadPrefix, FALSE).records

newest_log == get_most_recent_modified_file(s3, LogPrefix, FALSE).records

\* sub is made of elements of full, in the order they have in full
InOrderOf(sub, full) ==
    \E f \in [1..Len(sub) -> 1..Len(full)] :
        /\ \A i \in 1..Len(sub) : full[f[i]] = sub[i]
        /\ \A i, j \in 1..Len(sub) : i < j => f[i] < f[j]

HasEntry(log, t, status) ==
    \E k \in 1..Len(log) :
        log[k].ticket_id = t /\ log[k].notification_status = status

\* the steps of a tick at which the diff has returned and the tick has not
\* yet written its own metafile
AfterDiff(p) == tk[p].pc \in {"checklog", "send", "log", "prune_log", "pull2", "load"}

\* the steps of a tick at which the log filter has returned and the tick has
\* not yet written its own notification log
AfterFilter(p) ==
    \/ tk[p].pc \in {"send", "log"}
    \/ tk[p].pc = "prune_log" /\ tk[p].log = <<>>

\* C5: transition detection.  When the previous metafile is retrieved, the
\* diff returns exactly the records of the current pull whose status is a
\* completed label and whose ticket_id is not the id of a row of the
\* previous metafile with a completed status, in the order of the pull.
C5_TransitionDetection ==
    \A p \in Procs : AfterDiff(p) =>
        LET cur == tk[p].current_meta_file
            out == tk[p].recent_tickets
        IN /\ InOrderOf(out, cur)
           /\ \A i \in 1..Len(cur) :
                (cur[i] \in Range(out)) <=>
                    /\ cur[i].status \in CompletedLabels
                    /\ ~\E k \in 1..Len(last_meta_file) :
                          /\ last_meta_file[k].ticket_id = cur[i].ticket_id
                          /\ last_meta_file[k].status \in CompletedLabels

\* a tick whose previous metafile holds a completed ticket and an open one,
\* both completed in the current pull: only the second is returned
C5_Witness ==
    \E p \in Procs : \E a, b \in TicketIds :
        /\ tk[p].pc = "checklog"
        /\ \E k \in 1..Len(last_meta_file) :
              last_meta_file[k].ticket_id = a /\ last_meta_file[k].status = "Done"
        /\ \E k \in 1..Len(last_meta_file) :
              last_meta_file[k].ticket_id = b /\ last_meta_file[k].status = "Open"
        /\ Len(completed_tickets_of(tk[p].current_meta_file)) = 2
        /\ Len(tk[p].recent_tickets) = 1
        /\ tk[p].recent_tickets[1].ticket_id = b

\* C6: dedup filter.  When the log fetch raised the candidates are returned
\* unchanged; otherwise exactly the candidates with no success entry in the
\* newest log are returned, in input order, so a candidate with only failed
\* entries is kept.
C6_DedupFilter ==
    \A p \in Procs : AfterFilter(p) =>
        LET cand == tk[p].recent_tickets
            out == tk[p].contacts
        IN /\ objects_filter(s3, LogPrefix) = {} => ~tk[p].has_notif_log
           /\ ~tk[p].has_notif_log => out = cand
           /\ tk[p].has_notif_log =>
                /\ InOrderOf(out, cand)
                /\ \A i \in 1..Len(cand) :
                      (cand[i] \in Range(out)) <=>
                          ~HasEntry(newest_log, cand[i].ticket_id, "success")

\* two candidates, one with a success entry in the log (dropped) and one
\* with a failed entry only (kept)
C6_Witness ==
    \E p \in Procs : \E a, b \in TicketIds :
        /\ tk[p].pc = "send"
        /\ tk[p].has_notif_log
        /\ Len(tk[p].recent_tickets) = 2
        /\ HasEntry(newest_log, a, "success")
        /\ HasEntry(newest_log, b, "failed") /\ ~HasEntry(newest_log, b, "success")
        /\ Len(tk[p].contacts) = 1
        /\ tk[p].contacts[1].ticket_id = b

\* C7: failure isolation in send_notifications.  The log built by the loop
\* has one entry per candidate handled, in input order; the entry is success
\* exactly when both messages were sent and failed otherwise; the loop ends
\* only when every candidate has its entry.
C7_SendIsolation ==
    \A p \in Procs : tk[p].pc \in {"send", "log"} =>
        LET log == tk[p].log
        IN /\ Len(log) <= Len(tk[p].contacts)
           /\ tk[p].pc = "log" => Len(log) = Len(tk[p].contacts)
           /\ Len(tk[p].outcomes) = Len(log)
           /\ \A i \in 1..Len(log) :
                /\ log[i].ticket_id = tk[p].contacts[i].ticket_id
                /\ log[i].notification_status \in {"success", "failed"}
                /\ log[i].notification_status = "success"
                      <=> tk[p].outcomes[i] = "both_sent"
                /\ log[i].notification_status = "success" =>
                      /\ sent[log[i].ticket_id].user >= 1
                      /\ sent[log[i].ticket_id].team >= 1

\* two candidates: the first send raises, the second candidate is notified
C7_Witness ==
    \E p \in Procs :
        /\ tk[p].pc = "log"
        /\ tk[p].outcomes = <<"user_raises", "both_sent">>
        /\ tk[p].log[1].notification_status = "failed"
        /\ tk[p].log[2].notification_status = "success"

\* the entries of a log about one ticket, in log order
EntriesOf(log, t) == SelectSeq(log, LAMBDA e : e.ticket_id = t)

CompletedIn(meta_file, t) ==
    \E i \in 1..Len(meta_file) :
        meta_file[i].ticket_id = t /\ meta_file[i].status \in CompletedLabels

Selects(contacts, t) == \E i \in 1..Len(contacts) : contacts[i].ticket_id = t

\* C1: once the newest notification log holds a success entry for a ticket,
\* no later step sends a message for that ticket or changes the entries the
\* newest log holds for it.
C1_NeverNotifiedAgain ==
    [][\A t \in TicketIds :
          HasEntry(newest_log, t, "success") =>
              /\ sent'[t] = sent[t]
              /\ EntriesOf(newest_log', t) = EntriesOf(newest_log, t)]_vars

\* C2: whatever crash or unhandled exception ends a tick, a ticket whose
\* user message and team message were both delivered is not sent a message
\* by any later step.
C2_NoResendAfterCrash ==
    [][\A t \in TicketIds :
          (sent[t].user >= 1 /\ sent[t].team >= 1) => sent'[t] = sent[t]]_vars

\* C3: a ticket that is completed in the current pull and whose attempts in
\* the newest notification log are all failed is among the tickets the tick
\* selects for notification.
C3_FailedIsRetried ==
    \A p \in Procs : \A t \in TicketIds :
        ( /\ AfterFilter(p)
          /\ CompletedIn(tk[p].current_meta_file, t)
          /\ HasEntry(newest_log, t, "failed")
          /\ ~HasEntry(newest_log, t, "success") )
        => Selects(tk[p].contacts, t)

\* C4: cold start of the diff.  The diff never fails the tick, and when no
\* previous metafile is listed under the prefix it returns the completed
\* tickets of the current pull.
C4_ColdStartDiff ==
    \A p \in Procs :
        /\ tk[p].last # "UnboundLocalError"
        /\ (AfterDiff(p) /\ objects_filter(s3, MetaReadPrefix) = {}) =>
              tk[p].recent_tickets = completed_tickets_of(tk[p].current_meta_file)

\* C8: no exception leaves the notification loop: a tick that stops inside
\* the loop was killed, it did not raise.
C8_LoopNeverRaises ==
    \A p \in Procs : tk[p].at = "send" => tk[p].last = "crash"

\* the newest notification log among the snapshots written before `now`
log_before(now) ==
    get_most_recent_modified_file({o \in s3 : o.last_modified < now},
                                  LogPrefix, FALSE).records

C10_FirstLogWrite ==
    \A p \in Procs :
        /\ tk[p].last # "AttributeError"
        /\ (tk[p].pc = "prune_log" /\ tk[p].log # <<>> /\ ~tk[p].has_notif_log) =>
              newest_log = tk[p].log

\* C11: a tick whose candidate list after the diff and the log filter is
\* empty sends no message and writes no notification log: when notify has
\* returned, the messages delivered and the objects under the notification
\* log prefix are what they were when the tick started.
C11_EmptyTickWritesNothing ==
    \A p \in Procs :
        (tk[p].pc = "prune_log" /\ tk[p].contacts = <<>>) =>
            /\ tk[p].log = <<>>
            /\ sent = tk[p].sent0
            /\ objects_filter(s3, LogPrefix) = tk[p].files0

\* a tick that pulled a completed ticket, found it completed in the previous
\* metafile, and left a non-empty notification log as it was
C11_Witness ==
    \E p \in Procs :
        /\ tk[p].pc = "prune_log"
        /\ tk[p].contacts = <<>>
        /\ completed_tickets_of(tk[p].current_meta_file) # <<>>
        /\ newest_log # <<>>
        /\ objects_filter(s3, LogPrefix) = tk[p].files0

\* C12: idempotence of the tick.  When no ticket changes status after the
\* first pull of the first run, the run that follows it sends no message and
\* adds nothing under the notification log prefix.
C12_SecondRunSendsNothing ==
    \A p \in Procs :
        tk[p].tick >= 2 =>
            /\ sent = tk[p].sent0
            /\ objects_filter(s3, LogPrefix) = tk[p].files0

\* what retention pruning of a prefix is to leave in the store
kept_by_retention(store, prefix, T) ==
    {o \in store : \/ o.key.prefix # prefix
                   \/ o.last_modified >= T
                   \/ o.key = Key(prefix, 0, 0)}

\* C13: retention pruning.  A pruning step that returns leaves in the store
\* the folder object of its prefix, the files of the prefix last modified at
\* or after the threshold and the objects of other prefixes, and nothing
\* else: every file of the prefix modified before the threshold is gone.
C13_RetentionPruning ==
    [][\A p \in Procs :
          /\ (tk[p].pc = "prune_log" /\ tk'[p].pc = "pull2") =>
                s3' = kept_by_retention(s3, cfg.notifications_log_prefix,
                                        clock - Retention)
          /\ (tk[p].pc = "prune_meta" /\ tk'[p].last = "completed") =>
                s3' = kept_by_retention(s3, cfg.metafile_prefix,
                                        clock - Retention)]_vars

\* the objects written at the instant `now`
written_at(now) == {o \in s3 : o.last_modified = now /\ o.key.stamp # 0}

\* C14: a tick that a failed pull of the workspace database has ended (the
\* pull inside notify or the pull that builds the metafile to persist) has
\* written no metafile and no notification log.
C14_FailedPullWritesNothing ==
    \A p \in Procs :
        (tk[p].last = "HTTPError" /\ tk[p].at \in {"pull", "pull2"}) =>
            written_at(clock) = {}

\* C15: the pull returns one record for every ticket of the workspace
\* database, none twice, whatever the size of the database (the database
\* does not change while it is pulled).
C15_PullHoldsEveryTicket ==
    \A p \in Procs :
        tk[p].pc = "diff" =>
            LET cur == tk[p].current_meta_file
                ids == {t \in DOMAIN notion_db : notion_db[t].exists}
            IN /\ Len(cur) = Cardinality(ids)
               /\ {cur[i].ticket_id : i \in 1..Len(cur)} = ids

\* C16: submission retry.  When handle_submission has ended it has made one
\* create attempt, and one more exactly when the first did not return 200,
\* never a third; the submitter and the team channel have each been posted
\* one message, the success message when the last attempt returned 200 and
\* the failure message otherwise.
C16_SubmissionRetry ==
    submission.pc \in {"done", "raised"} =>
        LET attempts == submission.attempts
            msg == IF attempts[Len(attempts)] = 200 THEN "success" ELSE "fail"
        IN /\ Len(attempts) \in {1, 2}
           /\ Len(attempts) = 2 <=> attempts[1] # 200
           /\ \A i \in 1..Len(attempts) :
                 attempts[i] = 200 => i = Len(attempts)
           /\ submission.posted = <<[to |-> "user", msg |-> msg],
                                    [to |-> "team", msg |-> msg]>>

\* C17: a write to object storage that fails does not end the tick: no tick
\* is ended by the storage fault raised by the put of its notification log
\* or of its metafile, so the steps after the write still run.
C17_StorageFaultDoesNotAbort ==
    \A p \in Procs :
        tk[p].at \in {"log", "load"} => tk[p].last # "ClientError"

\* two deliveries made for one ticket by two ticks that had read the same
\* previous metafile and the same notification log
SameReads(d, e) ==
    /\ d.ticket_id = e.ticket_id
    /\ d.tick # e.tick
    /\ d.meta = e.meta
    /\ d.log = e.log /\ d.log # NoFile

\* C18: with at most one tick active at a time, no two ticks that read the
\* same previous metafile and the same notification log both deliver the
\* notification of one ticket.
C18_SerialTicksNeverRepeat ==
    env.max_instances = 1 =>
        \A d, e \in deliveries : ~SameReads(d, e)

\* with overlapping ticks: two running ticks have read the same snapshots,
\* hold the same ticket as a candidate and have both delivered its message
C18_Witness ==
    /\ env.max_instances = 2
    /\ \A p \in Procs : tk[p].pc = "log"
    /\ tk[1].last_metafile_name = tk[2].last_metafile_name
    /\ tk[1].file_name = tk[2].file_name /\ tk[1].file_name # NoFile
    /\ \E t \in TicketIds :
          /\ Selects(tk[1].contacts, t) /\ Selects(tk[2].contacts, t)
          /\ \E d, e \in deliveries : SameReads(d, e) /\ d.ticket_id = t
          /\ sent[t].user = 2

\* C19: pruning comes after every write of the tick.  A tick whose
\* notification logs have been pruned (it stands at the second pull or at
\* the persist) has already persisted its metafile.
C19_PruneAfterEveryWrite ==
    \A p \in Procs :
        tk[p].pc \in {"pull2", "load"} =>
            \E o \in written_at(clock) : o.key.prefix = cfg.metafile_prefix

\* the ids of the completed tickets of a record set
completed_ids(meta_file) ==
    {completed_tickets_of(meta_file)[i].ticket_id :
        i \in 1..Len(completed_tickets_of(meta_file))}

\* C20: no completion is lost between the two pulls.  The metafile a tick
\* has persisted shows as completed the tickets that the record set its
\* diff used as current shows as completed, and no others.
C20_PersistedIsDiffCurrent ==
    \A p \in Procs :
        tk[p].pc = "prune_meta" =>
            completed_ids(tk[p].metafile) =
                completed_ids(tk[p].current_meta_file)

\* C21: empty collection.  When the pull that builds the metafile returned
\* zero tickets, the persist step writes no file and returns: unless the
\* process is killed there, the tick goes on to the pruning of the metafile
\* prefix with the store as it was.
C21_EmptyMetafileIsSkipped ==
    [][\A p \in Procs :
          (tk[p].pc = "load" /\ tk[p].metafile = <<>>
             /\ tk'[p].pc # "load" /\ tk'[p].last # "crash") =>
                tk'[p].pc = "prune_meta" /\ s3' = s3]_vars

\* the files written under a prefix, and the key of the newest of them
files_written(prefix) ==
    {o \in objects_filter(s3, prefix) : o.key.stamp # 0}

newest_written(prefix) ==
    (CHOOSE o \in files_written(prefix) :
        \A q \in files_written(prefix) : q.key.stamp <= o.key.stamp).key

\* C22 (previous metafile): once a metafile has been persisted under the
\* configured metafile prefix, the file a tick has read as the previous
\* metafile is the newest of those persisted.
C22_ReadsLastPersistedMeta ==
    \A p \in Procs :
        (tk[p].pc = "checklog" /\ files_written(cfg.metafile_prefix) # {}) =>
            tk[p].last_metafile_name = newest_written(cfg.metafile_prefix)

\* C22 (previous log): once a notification log has been written, the file a
\* tick has read as the previous log is the newest log written.
C22_ReadsLastWrittenLog ==
    \A p \in Procs :
        (tk[p].pc \in {"send", "log"} /\ tk[p].file_name # NoFile
            /\ files_written(LogPrefix) # {}) =>
                tk[p].file_name = newest_written(LogPrefix)

\* C22 (pruning): the prefix a pruning step acts on is the prefix the tick
\* has read its previous log, or its previous metafile, from.
C22_PrunesWhatItReads ==
    \A p \in Procs :
        /\ (tk[p].pc = "prune_log" /\ tk[p].file_name # NoFile) =>
               tk[p].file_name.prefix = cfg.notifications_log_prefix
        /\ tk[p].pc = "prune_meta" =>
               tk[p].last_metafile_name.prefix = cfg.metafile_prefix

\* C22: previous-state oracle.  For every configured pair of prefixes a
\* tick reads as previous metafile the last one persisted, as previous log
\* the last one written, and prunes the prefixes it reads from.
C22_PreviousStateOracle ==
    /\ C22_ReadsLastPersistedMeta
    /\ C22_ReadsLastWrittenLog
    /\ C22_PrunesWhatItReads

====
